---- MODULE Spec2Model ----
(***************************************************************************)
(* Trial-lifecycle orchestration of gnn_tracking_hpo: the Dispatcher of    *)
(* src/gnn_tracking_hpo/tune.py and the search spaces of scripts/.         *)
(*                                                                         *)
(* Numbers: every hyperparameter value is an integer.  lr is counted in    *)
(* units of 1e-4, lw_potential_repulsive in units of 1e-3, a boolean is    *)
(* 1 or 0, and the hard-coded train_data_dir list is the number 900.       *)
(* An optional value (None or a value v) is <<>> or <<v>>.                 *)
(***************************************************************************)
EXTENDS Integers, Sequences, FiniteSets, TLC

VARIABLES
    \* ---- Dispatcher.__init__ arguments (tune.py:116-174)
    script,          \* which scripts/ module supplies suggest_config
    dispatcher,      \* the class: Dispatcher, or MyDispatcher of tune_gc.py
    test,
    only_enqueued,
    num_samples,     \* <<>> or <<n>>
    fixed,           \* content of the --fixed file; the empty map when not given
    enqueue,         \* the points of --enqueue, in order
    restore,         \* <<>> or <<saved>>: the searcher state saved in the directory
    grace_period,
    no_improvement_patience,
    rel_change_thld, \* the stopper's default threshold, in percent
    no_scheduler,
    reduction_factor, \* the scheduler's reduction factor
    timeout,         \* <<>> or <<string>>
    fail_slow,
    additional_stoppers,
    \* ---- the trial workers (external): what they report and whether they crash
    profile,         \* "increasing" or "flat" metric sequences
    natural_len,     \* the number of results after which a trial is done
    faulty,          \* whether a worker may fail
    pool_slots,      \* the size of the resource pool
    run_ahead,       \* how many results a worker may be ahead of the control path
    \* ---- search state
    phase,           \* INITIALIZING, RUNNING, COMPLETED
    n_samples,       \* TuneConfig.num_samples
    ot_study,        \* the waiting (enqueued) trials of the optuna study
    n_launched,      \* trials started so far
    trial_point,     \* <<>> or <<p>>: the enqueued point the last trial was given
    trial_config,    \* the configuration handed to the last trial
    \* ---- one trial under the no-improvement stopper
    st_history,      \* the metric values the trial reported, in order
    st_stopped,      \* the stopper's verdict on the last report
    \* ---- checkpoint retention of one trial
    ck_capacity,     \* K
    ck_retained,     \* the retained records [iteration, metric_value]
    ck_iteration,    \* the iteration of the last checkpoint
    ck_inserted,     \* how often each metric value was inserted so far
    ck_repeated,     \* whether some iteration was checkpointed twice
    \* ---- the scheduler alone
    sc_rungs,        \* per rung, the records [trial, value, decision] in report order
    sc_iter,         \* per trial, the iteration of its last result
    sc_stopped,      \* the trials the scheduler stopped
    sc_last,         \* <<>> or <<[trial, iteration, value]>>: the last on_result input
    sc_decision,     \* the decision on_result returned last
    sc_before,       \* <<>>, or after a repeated query <<decision, rungs>> before it
    \* ---- the campaign
    campaign,        \* INITIALIZING, RUNNING, COMPLETED, ABORTED, ERROR
    cp_n,            \* the number of trials to launch
    cp_launched,     \* trials 1..cp_launched were launched
    trial_state,     \* per trial: PENDING, RUNNING, STOPPED_BY_POLICY, ...
    emitted,         \* per trial, the results its worker produced
    processed,       \* per trial, the results routed to stoppers and scheduler
    discarded,       \* per trial, the results dropped after its stop
    holds,           \* per trial, whether it holds a resource slot
    cp_rungs,        \* the scheduler's rungs
    deadline_passed, \* whether the wall-clock budget has elapsed
    stopped_by,      \* per trial, who said STOP at its last processed result
    late,            \* the trials whose last result was processed after the deadline
    cp_retained,     \* per trial, the retained checkpoint records
    cp_at_deadline,  \* per trial, cp_retained and processed when the deadline passed
    clean_deadline   \* no worker had produced its last result when it passed

argVars == <<script, dispatcher, test, only_enqueued, num_samples, fixed, enqueue,
             restore, grace_period, no_improvement_patience, rel_change_thld,
             no_scheduler, reduction_factor, timeout, fail_slow, additional_stoppers,
             profile, natural_len, faulty, pool_slots, run_ahead>>

searchVars == <<phase, n_samples, ot_study, n_launched, trial_point, trial_config>>

stopperVars == <<st_history, st_stopped>>

retentionVars == <<ck_capacity, ck_retained, ck_iteration, ck_inserted, ck_repeated>>

schedulerVars == <<sc_rungs, sc_iter, sc_stopped, sc_last, sc_decision, sc_before>>

campaignVars == <<campaign, cp_n, cp_launched, trial_state, emitted, processed, discarded,
                  holds, cp_rungs, deadline_passed, stopped_by, late, cp_retained,
                  cp_at_deadline, clean_deadline>>

vars == <<argVars, searchVars, stopperVars, retentionVars, schedulerVars, campaignVars>>

\* ---------------------------------------------------------------- bounds
MaxSeeds == 2
MaxSamples == 2
MaxLaunch == 3
MaxGrace == 2
MaxPatience == 2
MaxReports == 6
MaxCheckpoints == 6
MaxRungs == 2
MaxSchedTrials == 3
MaxSchedReports == 5
MaxCampaignTrials == 2
MaxNaturalLen == 2

\* ------------------------------------------------------------- dictionaries
EmptyDict == [k \in {} |-> 0]

\* dict.update(g) / {**f, **g}: the right operand wins
Update(f, g) == [k \in DOMAIN f \cup DOMAIN g |-> IF k \in DOMAIN g THEN g[k] ELSE f[k]]

Put(f, key, v) == Update(f, key :> v)

BoolInt(b) == IF b THEN 1 ELSE 0

\* ------------------------------------------------------------ search space
\* The argument shapes of d(key, *args): one non-list value, a list, two numbers.
Value(v) == [kind |-> "value", v |-> v, choices |-> {v}, low |-> v, high |-> v]
Categorical(S) == [kind |-> "categorical", v |-> 0, choices |-> S, low |-> 0, high |-> 0]
Range(lo, hi) == [kind |-> "range", v |-> 0, choices |-> lo..hi, low |-> lo, high |-> hi]

get_metadata(t) == "test" :> BoolInt(t)

\* optuna's Trial.suggest_*: an enqueued trial returns its fixed parameter,
\* any other trial a draw from the distribution.
Suggest(trial, key, args) ==
    IF key \in DOMAIN trial.point /\ trial.point[key] \in args.choices
    THEN trial.point[key]
    ELSE trial.draw[key]

auto_suggest_if_not_fixed(key, st, trial, args) ==
    IF key \in DOMAIN st.config
    THEN st
    ELSE IF args.kind = "value"
         THEN [st EXCEPT !.config = Put(@, key, args.v)]
         ELSE [st EXCEPT !.params = Put(@, key, Suggest(trial, key, args))]

suggest_default_values(st, trial) ==
    auto_suggest_if_not_fixed("optimizer", st, trial, Value(1))

TrainDataDirs == 900

suggest_config_gc(trial, t, fx) ==
    LET s0 == [config |-> Update(get_metadata(t), fx), params |-> EmptyDict]
        s1 == auto_suggest_if_not_fixed("n_graphs_train", s0, trial, Value(7743))
        s2 == [s1 EXCEPT !.config = Put(@, "train_data_dir", TrainDataDirs)]
        s3 == auto_suggest_if_not_fixed("batch_size", s2, trial, Value(1))
        s4 == auto_suggest_if_not_fixed("lr", s3, trial, Value(10))
        s5 == auto_suggest_if_not_fixed("m_h_outdim", s4, trial, Categorical({8, 12, 16}))
        s6 == auto_suggest_if_not_fixed("lw_potential_repulsive", s5, trial, Range(8, 50))
    IN  suggest_default_values(s6, trial)

suggest_config_02(trial, t, fx) ==
    LET s0 == [config |-> Update(get_metadata(t), fx), params |-> EmptyDict]
        s1 == auto_suggest_if_not_fixed("batch_size", s0, trial, Value(1))
        s2 == auto_suggest_if_not_fixed("m_h_outdim", s1, trial, Categorical({4}))
        s3 == auto_suggest_if_not_fixed("lr", s2, trial, Range(1, 5))
        s4 == auto_suggest_if_not_fixed("m_hidden_dim", s3, trial, Value(116))
    IN  suggest_default_values(s4, trial)

suggest_config(sc, trial, t, fx) ==
    IF sc = "tune_gc" THEN suggest_config_gc(trial, t, fx) ELSE suggest_config_02(trial, t, fx)

\* The configuration of a trial: the returned constants with the suggested
\* parameters on top.
TrialConfig(sc, trial, t, fx) ==
    LET st == suggest_config(sc, trial, t, fx) IN Update(st.config, st.params)

\* ------------------------------------------------------- Dispatcher: search
points_to_evaluate == enqueue

\* OptunaSearch(partial(suggest_config, test, fixed), points_to_evaluate=...)
\* enqueues the points in order; restore_from_dir replaces the searcher's
\* state by the saved one.
get_optuna_search_dropped(pte, rs) == IF rs # <<>> THEN rs[1] ELSE <<>>

get_optuna_search(pte, rs) == IF rs # <<>> THEN rs[1] ELSE pte

DefaultNumSamples == 20

get_num_samples_explicit_first(t, oe, ns, pte) ==
    IF t THEN 1
    ELSE IF ns # <<>> THEN ns[1]
    ELSE IF oe THEN Len(pte)
    ELSE DefaultNumSamples

get_num_samples(t, oe, ns, pte) ==
    IF t THEN 1
    ELSE IF oe THEN Len(pte)
    ELSE IF ns # <<>> THEN ns[1]
    ELSE DefaultNumSamples

\* ------------------------------------------------------------ input sets
Scripts == {"tune_gc", "tune_02"}

SeedPoints(sc) ==
    IF sc = "tune_gc"
    THEN {"m_h_outdim" :> 16, "m_h_outdim" :> 8 @@ "lw_potential_repulsive" :> 20}
    ELSE {"lr" :> 5, "lr" :> 3 @@ "m_h_outdim" :> 4}

SeqsUpTo(S, n) == UNION {[1..k -> S] : k \in 0..n}

FullFixed == "batch_size" :> 2 @@ "train_data_dir" :> 901 @@ "m_h_outdim" :> 12 @@ "lr" :> 3

Restrict(f, S) == [k \in S |-> f[k]]

FixedConfigs ==
    {EmptyDict, FullFixed} \cup {Restrict(FullFixed, {k}) : k \in DOMAIN FullFixed}

Draws(sc) ==
    IF sc = "tune_gc"
    THEN [m_h_outdim : {8, 12, 16}, lr : {10}, lw_potential_repulsive : {8, 50}]
    ELSE [m_h_outdim : {4}, lr : {1, 5}, lw_potential_repulsive : {8}]

\* ------------------------------------------------------ defaults, idle parts
DefaultGracePeriod == 3
DefaultPatience == 10

SearchIdle ==
    /\ phase = "INITIALIZING"
    /\ n_samples = 0
    /\ ot_study = <<>>
    /\ n_launched = 0
    /\ trial_point = <<>>
    /\ trial_config = EmptyDict

StopperIdle == st_history = <<>> /\ st_stopped = FALSE

EndToEndTrials == 4

TrialIds == 1..EndToEndTrials

CampaignArgsDefault ==
    /\ timeout = <<>>
    /\ fail_slow = FALSE
    /\ additional_stoppers = <<>>
    /\ profile = "increasing"
    /\ natural_len = 0
    /\ faulty = FALSE
    /\ pool_slots = 0
    /\ run_ahead = 0

CampaignIdle ==
    /\ campaign = "INITIALIZING"
    /\ cp_n = 0
    /\ cp_launched = 0
    /\ trial_state = [t \in TrialIds |-> "PENDING"]
    /\ emitted = [t \in TrialIds |-> 0]
    /\ processed = [t \in TrialIds |-> 0]
    /\ discarded = [t \in TrialIds |-> 0]
    /\ holds = [t \in TrialIds |-> FALSE]
    /\ cp_rungs = [k \in 0..(MaxRungs - 1) |-> <<>>]
    /\ deadline_passed = FALSE
    /\ stopped_by = [t \in TrialIds |-> {}]
    /\ late = {}
    /\ cp_retained = [t \in TrialIds |-> {}]
    /\ cp_at_deadline = [t \in TrialIds |-> [retained |-> {}, processed |-> 0]]
    /\ clean_deadline = FALSE

CheckpointMetrics == {30, 50, 90, 95}

RetentionIdle ==
    /\ ck_retained = {}
    /\ ck_iteration = 0
    /\ ck_inserted = [m \in CheckpointMetrics |-> 0]
    /\ ck_repeated = FALSE

SearchArgsDefault ==
    /\ script = "tune_gc"
    /\ only_enqueued = FALSE
    /\ num_samples = <<>>
    /\ fixed = EmptyDict
    /\ enqueue = <<>>
    /\ restore = <<>>

SchedulerTrials == 1..MaxSchedTrials

SchedulerIdle ==
    /\ sc_rungs = [k \in 0..(MaxRungs - 1) |-> <<>>]
    /\ sc_iter = [t \in SchedulerTrials |-> 0]
    /\ sc_stopped = {}
    /\ sc_last = <<>>
    /\ sc_decision = "CONTINUE"
    /\ sc_before = <<>>

SchedulerArgsDefault == no_scheduler = FALSE /\ reduction_factor = 4

StopperArgsDefault ==
    /\ dispatcher = "Dispatcher"
    /\ grace_period = DefaultGracePeriod
    /\ no_improvement_patience = DefaultPatience
    /\ rel_change_thld = 1

\* ------------------------------------------------------------ the search
InitSearch ==
    /\ script \in Scripts
    /\ test \in BOOLEAN
    /\ only_enqueued \in BOOLEAN
    /\ num_samples \in {<<>>} \cup {<<n>> : n \in 0..MaxSamples}
    /\ fixed \in FixedConfigs
    /\ enqueue \in SeqsUpTo(SeedPoints(script), MaxSeeds)
    /\ restore \in {<<>>} \cup {<<q>> : q \in SeqsUpTo(SeedPoints(script), 1)}
    /\ StopperArgsDefault
    /\ SearchIdle
    /\ StopperIdle
    /\ ck_capacity = 0
    /\ RetentionIdle
    /\ SchedulerArgsDefault
    /\ SchedulerIdle
    /\ CampaignArgsDefault
    /\ CampaignIdle

\* Dispatcher.get_tune_config: the trial count and the searcher
GetTuneConfig ==
    /\ phase = "INITIALIZING"
    /\ n_samples' = get_num_samples(test, only_enqueued, num_samples, points_to_evaluate)
    /\ ot_study' = get_optuna_search(points_to_evaluate, restore)
    /\ phase' = "RUNNING"
    /\ UNCHANGED <<n_launched, trial_point, trial_config>>
    /\ UNCHANGED <<argVars, stopperVars, retentionVars, schedulerVars, campaignVars>>

\* one call of the searcher: study.ask() takes the oldest waiting trial, if any
SuggestTrial ==
    /\ phase = "RUNNING"
    /\ n_launched < n_samples
    /\ n_launched < MaxLaunch
    /\ \E draw \in Draws(script) :
        LET point == IF ot_study # <<>> THEN Head(ot_study) ELSE EmptyDict
            trial == [point |-> point, draw |-> draw]
        IN  /\ trial_config' = TrialConfig(script, trial, test, fixed)
            /\ trial_point' = IF ot_study # <<>> THEN <<Head(ot_study)>> ELSE <<>>
    /\ ot_study' = IF ot_study # <<>> THEN Tail(ot_study) ELSE ot_study
    /\ n_launched' = n_launched + 1
    /\ UNCHANGED <<phase, n_samples>>
    /\ UNCHANGED <<argVars, stopperVars, retentionVars, schedulerVars, campaignVars>>

SearchExhausted ==
    /\ phase = "RUNNING"
    /\ n_launched >= n_samples
    /\ phase' = "COMPLETED"
    /\ UNCHANGED <<n_samples, ot_study, n_launched, trial_point, trial_config>>
    /\ UNCHANGED <<argVars, stopperVars, retentionVars, schedulerVars, campaignVars>>

NextSearch == GetTuneConfig \/ SuggestTrial \/ SearchExhausted

Spec == InitSearch /\ [][NextSearch]_vars

\* ------------------------------------------------------ claims on the search
Launched == n_launched >= 1

\* C1: for every key K of the fixed-override mapping, the configuration of
\* every trial has override[K] as the value of K.
C1_FixedOverridesWin ==
    Launched =>
        \A K \in DOMAIN fixed : K \in DOMAIN trial_config /\ trial_config[K] = fixed[K]

SeedInOrder ==
    (Launched /\ n_launched <= Len(points_to_evaluate)) =>
        /\ trial_point = <<points_to_evaluate[n_launched]>>
        /\ \A k \in DOMAIN trial_point[1] \ DOMAIN fixed :
               trial_config[k] = trial_point[1][k]

\* C2: in every campaign the i-th launched trial is given the i-th point of
\* points_to_evaluate, for every i up to their number, so that no sampled
\* configuration is produced while a point is unconsumed.
C2_SeedsFirstInOrder == SeedInOrder

\* C2, amended: the same, for a campaign that does not restore a saved
\* search state.
C2_SeedsFirstUnlessRestored == (restore = <<>>) => SeedInOrder

C2_Witness ==
    /\ restore = <<>>
    /\ n_launched = 2
    /\ Len(points_to_evaluate) = 2
    /\ points_to_evaluate[1] # points_to_evaluate[2]
    /\ trial_point = <<points_to_evaluate[2]>>

get_no_improvement_stopper_grace_is_patience(cls, gp, pat, thld) ==
    IF cls = "MyDispatcher"
    THEN [metric |-> "total", patience |-> 3, mode |-> "min", grace_period |-> 3,
          rel_change_thld |-> 1]
    ELSE [metric |-> "self.metric", patience |-> pat, mode |-> "max",
          grace_period |-> pat, rel_change_thld |-> thld]

get_no_improvement_stopper(cls, gp, pat, thld) ==
    IF cls = "MyDispatcher"
    THEN [metric |-> "total", patience |-> 3, mode |-> "min", grace_period |-> 3,
          rel_change_thld |-> 1]
    ELSE [metric |-> "self.metric", patience |-> pat, mode |-> "max",
          grace_period |-> gp, rel_change_thld |-> thld]

\* v improves on best by more than the relative threshold (metrics are positive)
Improves(mode, thld, v, best) ==
    IF mode = "max"
    THEN 100 * (v - best) > thld * best
    ELSE 100 * (best - v) > thld * best

\* The stopper's record of one trial: the best value and the number of
\* consecutive reports past the grace period without improvement. Advance is
\* the record after the n-th report v, prev the record before it.
Advance(cfg, prev, v, n) ==
    IF prev.best = <<>> \/ Improves(cfg.mode, cfg.rel_change_thld, v, prev.best[1])
    THEN [best |-> <<v>>, stagnant |-> 0]
    ELSE [best |-> prev.best,
          stagnant |-> IF n > cfg.grace_period THEN prev.stagnant + 1 ELSE prev.stagnant]

RECURSIVE NoImprovementState(_, _)
NoImprovementState(cfg, h) ==
    IF h = <<>>
    THEN [best |-> <<>>, stagnant |-> 0]
    ELSE CHOOSE s \in {Advance(cfg, prev, h[Len(h)], Len(h)) :
                          prev \in {NoImprovementState(cfg, SubSeq(h, 1, Len(h) - 1))}} : TRUE

NoImprovementShouldStop(cfg, h) ==
    /\ Len(h) > cfg.grace_period
    /\ NoImprovementState(cfg, h).stagnant >= cfg.patience

Deltas == {-50, -1, 0, 1, 50}

NextMetrics(h) == IF h = <<>> THEN {1000} ELSE {h[Len(h)] + d : d \in Deltas}

InitStopper ==
    /\ dispatcher \in {"Dispatcher", "MyDispatcher"}
    /\ IF dispatcher = "MyDispatcher"
       THEN /\ grace_period = DefaultGracePeriod
            /\ no_improvement_patience = DefaultPatience
            /\ rel_change_thld = 1
       ELSE /\ grace_period \in 1..MaxGrace
            /\ no_improvement_patience \in 1..MaxPatience
            /\ rel_change_thld \in {0, 1}
    /\ test = FALSE
    /\ SearchArgsDefault
    /\ SearchIdle
    /\ StopperIdle
    /\ ck_capacity = 0
    /\ RetentionIdle
    /\ SchedulerArgsDefault
    /\ SchedulerIdle
    /\ CampaignArgsDefault
    /\ CampaignIdle

\* the trial reports a result and the stopper is asked
StopperReport ==
    /\ ~st_stopped
    /\ Len(st_history) < MaxReports
    /\ \E v \in NextMetrics(st_history) :
        /\ st_history' = Append(st_history, v)
        /\ st_stopped' = NoImprovementShouldStop(
               get_no_improvement_stopper(dispatcher, grace_period,
                                          no_improvement_patience, rel_change_thld),
               st_history')
    /\ UNCHANGED <<argVars, searchVars, retentionVars, schedulerVars, campaignVars>>

NextStopper == StopperReport

SpecStopper == InitStopper /\ [][NextStopper]_vars

\* ----------------------------------------------------- claims on the stopper
StopperGrace == IF dispatcher = "MyDispatcher" THEN 3 ELSE grace_period
StopperPatience == IF dispatcher = "MyDispatcher" THEN 3 ELSE no_improvement_patience
StopperMode == IF dispatcher = "MyDispatcher" THEN "min" ELSE "max"
StopperThld == IF dispatcher = "MyDispatcher" THEN 1 ELSE rel_change_thld

StrictlyImproves ==
    \A i \in 2..Len(st_history) :
        IF StopperMode = "max" THEN st_history[i] > st_history[i - 1]
                               ELSE st_history[i] < st_history[i - 1]

ImprovesBeyondThreshold ==
    \A i \in 2..Len(st_history) :
        Improves(StopperMode, StopperThld, st_history[i], st_history[i - 1])

FlatAfterGrace ==
    \A i \in (StopperGrace + 1)..Len(st_history) : st_history[i] = st_history[StopperGrace]

FlatCase ==
    (st_history # <<>> /\ FlatAfterGrace) =>
        (st_stopped <=> Len(st_history) >= StopperGrace + StopperPatience)

\* C5: on a sequence that strictly improves at every iteration the stopper
\* never says stop; on a sequence flat after grace_period it says stop at
\* iteration grace_period + patience and at no earlier one.
C5_NoImprovementStopper ==
    /\ (st_history # <<>> /\ StrictlyImproves) => ~st_stopped
    /\ FlatCase

\* C5, amended: on a sequence in which every report improves on the one
\* before by more than the relative-change threshold the stopper never says
\* stop; the flat case as claimed.
C5_NoImprovementStopperThreshold ==
    /\ (st_history # <<>> /\ ImprovesBeyondThreshold) => ~st_stopped
    /\ FlatCase

C5_Witness ==
    /\ dispatcher = "Dispatcher"
    /\ grace_period = 2 /\ no_improvement_patience = 1
    /\ Len(st_history) = 3
    /\ st_history[2] > st_history[1] + 1
    /\ FlatAfterGrace
    /\ st_stopped

\* ---------------------------------------------------- checkpoint retention
get_checkpoint_config_min ==
    [checkpoint_score_attribute |-> "self.metric", checkpoint_score_order |-> "min",
     num_to_keep |-> 5, checkpoint_frequency |-> 1]

get_checkpoint_config ==
    [checkpoint_score_attribute |-> "self.metric", checkpoint_score_order |-> "max",
     num_to_keep |-> 5, checkpoint_frequency |-> 1]

Better(order, a, b) == IF order = "max" THEN a > b ELSE a < b

\* the worst retained record; of several, the one of the earliest iteration
WorstKept(order, retained) ==
    CHOOSE r \in retained :
        \A q \in retained :
            /\ ~Better(order, r.metric_value, q.metric_value)
            /\ q.metric_value = r.metric_value => r.iteration <= q.iteration

\* CheckpointRetention.on_checkpoint (spec 4.4)
on_checkpoint(order, K, retained, record) ==
    LET same == {r \in retained : r.iteration = record.iteration}
    IN  IF same # {}
        THEN (retained \ same) \cup {record}
        ELSE IF Cardinality(retained) < K
        THEN retained \cup {record}
        ELSE IF K > 0 /\ Better(order, record.metric_value,
                                WorstKept(order, retained).metric_value)
        THEN (retained \ {WorstKept(order, retained)}) \cup {record}
        ELSE retained

InitRetention ==
    /\ ck_capacity \in {2, get_checkpoint_config.num_to_keep}
    /\ RetentionIdle
    /\ SchedulerArgsDefault
    /\ SchedulerIdle
    /\ CampaignArgsDefault
    /\ CampaignIdle
    /\ test = FALSE
    /\ SearchArgsDefault
    /\ StopperArgsDefault
    /\ SearchIdle
    /\ StopperIdle

\* a checkpoint of the next iteration
Checkpoint ==
    /\ ck_iteration < MaxCheckpoints
    /\ \E m \in CheckpointMetrics :
        /\ ck_retained' = on_checkpoint(get_checkpoint_config.checkpoint_score_order,
                                        ck_capacity, ck_retained,
                                        [iteration |-> ck_iteration + 1, metric_value |-> m])
        /\ ck_inserted' = [ck_inserted EXCEPT ![m] = @ + 1]
    /\ ck_iteration' = ck_iteration + 1
    /\ UNCHANGED <<ck_capacity, ck_repeated>>
    /\ UNCHANGED <<argVars, searchVars, stopperVars, schedulerVars, campaignVars>>

\* a second checkpoint of the iteration checkpointed last
CheckpointAgain ==
    /\ ck_iteration >= 1
    /\ ~ck_repeated
    /\ \E m \in CheckpointMetrics :
        /\ ck_retained' = on_checkpoint(get_checkpoint_config.checkpoint_score_order,
                                        ck_capacity, ck_retained,
                                        [iteration |-> ck_iteration, metric_value |-> m])
        /\ ck_inserted' = [ck_inserted EXCEPT ![m] = @ + 1]
    /\ ck_repeated' = TRUE
    /\ UNCHANGED <<ck_capacity, ck_iteration>>
    /\ UNCHANGED <<argVars, searchVars, stopperVars, schedulerVars, campaignVars>>

NextRetention == Checkpoint \/ CheckpointAgain

SpecRetention == InitRetention /\ [][NextRetention]_vars

\* --------------------------------------------------- claims on the retention
RECURSIVE SumOver(_, _)
SumOver(f, S) ==
    IF S = {} THEN 0
    ELSE LET x == CHOOSE y \in S : TRUE IN f[x] + SumOver(f, S \ {x})

Min(a, b) == IF a <= b THEN a ELSE b

KeptOf(m) == Cardinality({r \in ck_retained : r.metric_value = m})

InsertedAbove(m) == SumOver(ck_inserted, {w \in CheckpointMetrics : w > m})

\* the retained values are the K largest of the inserted values
RetainedAreKBest ==
    \A m \in CheckpointMetrics :
        KeptOf(m) = IF InsertedAbove(m) >= ck_capacity THEN 0
                    ELSE Min(ck_inserted[m], ck_capacity - InsertedAbove(m))

OnePerIteration ==
    \A r, q \in ck_retained : r.iteration = q.iteration => r = q

\* C9: in max mode with capacity K, after any sequence of insertions at most
\* K records are retained and they are the K best values inserted so far; a
\* second checkpoint of a retained iteration replaces the earlier record.
C9_Retention ==
    /\ Cardinality(ck_retained) <= ck_capacity
    /\ RetainedAreKBest
    /\ OnePerIteration

\* C9, amended: at most K records are retained, one per iteration; as long as
\* no iteration was checkpointed twice they are the K best values inserted.
C9_RetentionDistinctIterations ==
    /\ Cardinality(ck_retained) <= ck_capacity
    /\ OnePerIteration
    /\ ~ck_repeated => RetainedAreKBest

\* K = 2 and the values 50, 90, 30, 95 inserted once each, in some order
C9_Witness ==
    /\ ck_capacity = 2
    /\ ~ck_repeated
    /\ ck_inserted = [m \in CheckpointMetrics |-> 1]
    /\ {r.metric_value : r \in ck_retained} = {90, 95}

\* ------------------------------------------------------------ the scheduler
\* None (FIFO) with no_scheduler, else ASHAScheduler(metric, mode, grace_period)
get_scheduler_none(ns, gp) == <<>>

get_scheduler_min(ns, gp) ==
    IF ns THEN <<>>
    ELSE <<[metric |-> "self.metric", mode |-> "min", grace_period |-> gp]>>

get_scheduler(ns, gp) ==
    IF ns THEN <<>>
    ELSE <<[metric |-> "self.metric", mode |-> "max", grace_period |-> gp]>>

RECURSIVE Power(_, _)
Power(b, k) == IF k = 0 THEN 1 ELSE b * Power(b, k - 1)

\* rung k is at iteration grace_period * reduction_factor^k
Milestone(sched, rf, k) == sched.grace_period * Power(rf, k)

RungsReached(sched, rf, iteration) ==
    {k \in 0..(MaxRungs - 1) : Milestone(sched, rf, k) <= iteration}

TopRung(sched, rf, iteration) ==
    CHOOSE k \in RungsReached(sched, rf, iteration) :
        \A j \in RungsReached(sched, rf, iteration) : j <= k

RecordOf(pool, trial) == {i \in 1..Len(pool) : pool[i].trial = trial}

\* the records of the pool that rank before a new value: the better ones and,
\* the earlier report winning a tie, the equal ones
RankedBefore(mode, pool, value) ==
    {i \in 1..Len(pool) : ~Better(mode, value, pool[i].value)}

\* inside the top 1/reduction_factor of n values: rank <= ceiling(n / rf)
InsideTopFraction(rf, before, n) == before * rf < n

\* TrialScheduler.on_result (spec 4.3): the decision and the rungs after it
on_result(sched, rf, rungs, trial, iteration, value) ==
    IF RungsReached(sched, rf, iteration) = {}
    THEN [decision |-> "CONTINUE", rungs |-> rungs]
    ELSE LET k == TopRung(sched, rf, iteration)
             pool == rungs[k]
             seen == RecordOf(pool, trial)
         IN  IF seen # {}
             THEN [decision |-> pool[CHOOSE i \in seen : TRUE].decision, rungs |-> rungs]
             ELSE LET before == Cardinality(RankedBefore(sched.mode, pool, value))
                      d == IF InsideTopFraction(rf, before, Len(pool) + 1)
                           THEN "CONTINUE" ELSE "STOP"
                      rec == [trial |-> trial, value |-> value, decision |-> d]
                  IN  [decision |-> d, rungs |-> [rungs EXCEPT ![k] = Append(pool, rec)]]

SchedulerMetrics == {10, 20, 30}

InitScheduler ==
    /\ no_scheduler = FALSE
    /\ reduction_factor \in {2, 3}
    /\ grace_period \in {1, MaxGrace}
    /\ dispatcher = "Dispatcher"
    /\ no_improvement_patience = DefaultPatience
    /\ rel_change_thld = 1
    /\ test = FALSE
    /\ SearchArgsDefault
    /\ SearchIdle
    /\ StopperIdle
    /\ ck_capacity = 0
    /\ RetentionIdle
    /\ SchedulerIdle
    /\ CampaignArgsDefault
    /\ CampaignIdle

\* the number of results the trials S have reported
RECURSIVE TotalReports(_, _)
TotalReports(iter, S) ==
    IF S = {} THEN 0
    ELSE LET t == CHOOSE x \in S : TRUE
         IN  iter[t] + TotalReports(iter, S \ {t})

\* a running trial reports the result of its next iteration; the trials are
\* numbered in the order of their first reports
SchedulerOnResult ==
    \E t \in SchedulerTrials \ sc_stopped, v \in SchedulerMetrics :
        /\ TotalReports(sc_iter, SchedulerTrials) < MaxSchedReports
        /\ sc_iter[t] = 0 => \A u \in SchedulerTrials : u < t => sc_iter[u] > 0
        /\ LET sched == get_scheduler(no_scheduler, grace_period)[1]
               r == on_result(sched, reduction_factor, sc_rungs, t, sc_iter[t] + 1, v)
           IN  /\ sc_rungs' = r.rungs
               /\ sc_decision' = r.decision
               /\ sc_stopped' = IF r.decision = "STOP" THEN sc_stopped \cup {t}
                                                     ELSE sc_stopped
        /\ sc_iter' = [sc_iter EXCEPT ![t] = @ + 1]
        /\ sc_last' = <<[trial |-> t, iteration |-> sc_iter[t] + 1, value |-> v]>>
        /\ sc_before' = <<>>
        /\ UNCHANGED <<argVars, searchVars, stopperVars, retentionVars, campaignVars>>

\* on_result is asked again with the trial and result of the last call
SchedulerRequery ==
    /\ sc_last # <<>>
    /\ sc_before = <<>>
    /\ LET sched == get_scheduler(no_scheduler, grace_period)[1]
           q == sc_last[1]
           r == on_result(sched, reduction_factor, sc_rungs, q.trial, q.iteration, q.value)
       IN  /\ sc_rungs' = r.rungs
           /\ sc_decision' = r.decision
    /\ sc_before' = <<sc_decision, sc_rungs>>
    /\ UNCHANGED <<sc_iter, sc_stopped, sc_last>>
    /\ UNCHANGED <<argVars, searchVars, stopperVars, retentionVars, campaignVars>>

NextScheduler == SchedulerOnResult \/ SchedulerRequery

SpecScheduler == InitScheduler /\ [][NextScheduler]_vars

\* --------------------------------------------------- claims on the scheduler
\* the rung the last result was scored at, if any
LastRungs ==
    {k \in 0..(MaxRungs - 1) :
        /\ grace_period * Power(reduction_factor, k) <= sc_last[1].iteration
        /\ \A j \in 0..(MaxRungs - 1) :
               grace_period * Power(reduction_factor, j) <= sc_last[1].iteration => j <= k}

\* how many of the values recorded at the rung before the last one rank
\* before it when larger is better
RankedBeforeLast(k) ==
    Cardinality({i \in 1..(Len(sc_rungs[k]) - 1) : sc_rungs[k][i].value >= sc_last[1].value})

\* the last result is the first the trial reports at rung k
ScoredNow(k) ==
    /\ sc_last[1].iteration = grace_period * Power(reduction_factor, k)
    /\ sc_rungs[k] # <<>>
    /\ sc_rungs[k][Len(sc_rungs[k])].trial = sc_last[1].trial

\* C6: a trial scored at a rung is stopped exactly if its value is outside
\* the top 1/reduction_factor of the values recorded there so far, larger
\* being better; asking again with the same trial and result gives the same
\* decision and leaves the rungs as they are.
C6_SchedulerOnResult ==
    /\ (sc_last # <<>> /\ sc_before = <<>>) =>
         \A k \in LastRungs :
             ScoredNow(k) =>
                 (sc_decision = "CONTINUE"
                     <=> RankedBeforeLast(k) * reduction_factor < Len(sc_rungs[k]))
    /\ sc_before # <<>> => sc_before = <<sc_decision, sc_rungs>>

C6_Witness ==
    /\ sc_before # <<>>
    /\ sc_decision = "STOP"
    /\ \E k \in LastRungs : Len(sc_rungs[k]) = 3 /\ ScoredNow(k)

\* ------------------------------------------------------------ the stoppers
\* pytimeparse.parse: seconds, or None for a string it cannot read
pytimeparse_parse(str) == IF str = "1h13m" THEN <<4380>> ELSE <<>>

NoStopper == [kind |-> "None"]

get_timeout_stopper_never(to) == NoStopper

get_timeout_stopper(to) ==
    IF to = <<>>
    THEN NoStopper
    ELSE IF pytimeparse_parse(to[1]) = <<>>
         THEN [kind |-> "ValueError"]
         ELSE [kind |-> "timeout", seconds |-> pytimeparse_parse(to[1])[1]]

MaximumIterationStopper(n) == [kind |-> "max_iteration", max_iter |-> n]

NoImprovementTrialStopper(cfg) == [kind |-> "no_improvement", cfg |-> cfg]

get_stoppers_no_timeout(cls, t, to, add, gp, pat, thld) ==
    LET stoppers == <<NoImprovementTrialStopper(
                        get_no_improvement_stopper(cls, gp, pat, thld))>> \o add
        tested == IF t THEN Append(stoppers, MaximumIterationStopper(1)) ELSE stoppers
    IN  SelectSeq(tested, LAMBDA st : st.kind # "None")

get_stoppers_no_max_iteration(cls, t, to, add, gp, pat, thld) ==
    LET stoppers == <<NoImprovementTrialStopper(
                        get_no_improvement_stopper(cls, gp, pat, thld))>> \o add
        timed == IF get_timeout_stopper(to).kind # "None"
                 THEN Append(stoppers, get_timeout_stopper(to)) ELSE stoppers
    IN  SelectSeq(timed, LAMBDA st : st.kind # "None")

get_stoppers(cls, t, to, add, gp, pat, thld) ==
    LET stoppers == <<NoImprovementTrialStopper(
                        get_no_improvement_stopper(cls, gp, pat, thld))>> \o add
        timed == IF get_timeout_stopper(to).kind # "None"
                 THEN Append(stoppers, get_timeout_stopper(to)) ELSE stoppers
        tested == IF t THEN Append(timed, MaximumIterationStopper(1)) ELSE timed
    IN  SelectSeq(tested, LAMBDA st : st.kind # "None")

\* one stopper's verdict on a trial that has reported h, the last report
\* being processed before or after the deadline
StopperSays(st, h, deadline) ==
    CASE st.kind = "no_improvement" -> NoImprovementShouldStop(st.cfg, h)
      [] st.kind = "timeout" -> deadline
      [] st.kind = "max_iteration" -> Len(h) >= st.max_iter
      [] OTHER -> FALSE

\* CombinedStopper: the stoppers that say stop; any of them stops the trial
CombinedStopper(stoppers, h, deadline) ==
    {stoppers[i].kind : i \in {j \in 1..Len(stoppers) : StopperSays(stoppers[j], h, deadline)}}

get_run_config(cls, t, to, add, gp, pat, thld, fs) ==
    [stop |-> get_stoppers(cls, t, to, add, gp, pat, thld),
     checkpoint_config |-> get_checkpoint_config,
     failure_config |-> [fail_fast |-> ~fs]]

RunConfig ==
    get_run_config(dispatcher, test, timeout, additional_stoppers, grace_period,
                   no_improvement_patience, rel_change_thld, fail_slow)

\* ------------------------------------------------------------ the campaign
\* the metric a worker reports at an iteration
Score(pf, t, i) == IF pf = "increasing" THEN 1000 + 100 * i + t ELSE 1000 + t

History(pf, t, n) == [i \in 1..n |-> Score(pf, t, i)]

Terminal == {"STOPPED_BY_POLICY", "STOPPED_BY_SCHEDULER", "COMPLETED", "FAILED"}

Consumed(t) == processed[t] + discarded[t]

\* the control path returns the slot of a trial it stopped before it goes on
SlotsSettled == \A t \in TrialIds : holds[t] => trial_state[t] \notin Terminal

FreeSlots == pool_slots - Cardinality({t \in TrialIds : holds[t]})

\* Dispatcher.get_tuner: Tuner(trainable, tune_config, run_config)
GetTuner ==
    /\ campaign = "INITIALIZING"
    /\ IF get_timeout_stopper(timeout).kind = "ValueError"
       THEN campaign' = "ERROR" /\ cp_n' = cp_n
       ELSE /\ campaign' = "RUNNING"
            /\ cp_n' = get_num_samples(test, only_enqueued, num_samples, points_to_evaluate)
    /\ UNCHANGED <<cp_launched, trial_state, emitted, processed, discarded, holds,
                   cp_rungs, deadline_passed, stopped_by, late, cp_retained,
                   cp_at_deadline, clean_deadline>>
    /\ UNCHANGED <<argVars, searchVars, stopperVars, retentionVars, schedulerVars>>

HasTimeout == \E i \in 1..Len(RunConfig.stop) : RunConfig.stop[i].kind = "timeout"

\* TimeoutStopper.stop_all: no trial is started once the budget has elapsed
StopAll == HasTimeout /\ deadline_passed

\* a new trial takes a free slot
Launch ==
    /\ campaign = "RUNNING"
    /\ ~StopAll
    /\ SlotsSettled
    /\ cp_launched < cp_n
    /\ cp_launched + 1 \in TrialIds
    /\ FreeSlots > 0
    /\ cp_launched' = cp_launched + 1
    /\ trial_state' = [trial_state EXCEPT ![cp_launched + 1] = "RUNNING"]
    /\ holds' = [holds EXCEPT ![cp_launched + 1] = TRUE]
    /\ UNCHANGED <<campaign, cp_n, emitted, processed, discarded, cp_rungs,
                   deadline_passed, stopped_by, late, cp_retained, cp_at_deadline,
                   clean_deadline>>
    /\ UNCHANGED <<argVars, searchVars, stopperVars, retentionVars, schedulerVars>>

\* a worker that has not been stopped reports its next result
Report(t) ==
    /\ campaign = "RUNNING"
    /\ trial_state[t] = "RUNNING"
    /\ emitted[t] < natural_len
    /\ emitted[t] - Consumed(t) < run_ahead
    /\ emitted' = [emitted EXCEPT ![t] = @ + 1]
    /\ UNCHANGED <<campaign, cp_n, cp_launched, trial_state, processed, discarded, holds,
                   cp_rungs, deadline_passed, stopped_by, late, cp_retained,
                   cp_at_deadline, clean_deadline>>
    /\ UNCHANGED <<argVars, searchVars, stopperVars, retentionVars, schedulerVars>>

\* the next result of a running trial goes to the stoppers, the scheduler and
\* the checkpoint retention, and a STOP is applied
ProcessResult(t) ==
    /\ campaign = "RUNNING"
    /\ SlotsSettled
    /\ trial_state[t] = "RUNNING"
    /\ Consumed(t) < emitted[t]
    /\ LET n == processed[t] + 1
           value == Score(profile, t, n)
           who == CombinedStopper(RunConfig.stop, History(profile, t, n), deadline_passed)
           sched == get_scheduler(no_scheduler, grace_period)
           r == IF sched = <<>>
                THEN [decision |-> "CONTINUE", rungs |-> cp_rungs]
                ELSE on_result(sched[1], reduction_factor, cp_rungs, t, n, value)
           cc == RunConfig.checkpoint_config
       IN  /\ processed' = [processed EXCEPT ![t] = n]
           /\ stopped_by' = [stopped_by EXCEPT ![t] =
                  who \cup (IF r.decision = "STOP" THEN {"scheduler"} ELSE {})]
           /\ trial_state' = [trial_state EXCEPT ![t] =
                  IF who # {} THEN "STOPPED_BY_POLICY"
                  ELSE IF r.decision = "STOP" THEN "STOPPED_BY_SCHEDULER"
                  ELSE "RUNNING"]
           /\ cp_rungs' = r.rungs
           /\ cp_retained' = [cp_retained EXCEPT ![t] =
                  IF n % cc.checkpoint_frequency = 0
                  THEN on_checkpoint(cc.checkpoint_score_order, cc.num_to_keep, @,
                                     [iteration |-> n, metric_value |-> value])
                  ELSE @]
    /\ late' = IF deadline_passed THEN late \cup {t} ELSE late \ {t}
    /\ UNCHANGED <<campaign, cp_n, cp_launched, emitted, discarded, holds,
                   deadline_passed, cp_at_deadline, clean_deadline>>
    /\ UNCHANGED <<argVars, searchVars, stopperVars, retentionVars, schedulerVars>>

\* the results in flight from a trial that was stopped are dropped
DiscardResult(t) ==
    /\ campaign = "RUNNING"
    /\ SlotsSettled
    /\ trial_state[t] \in Terminal
    /\ Consumed(t) < emitted[t]
    /\ discarded' = [discarded EXCEPT ![t] = emitted[t] - processed[t]]
    /\ UNCHANGED <<campaign, cp_n, cp_launched, trial_state, emitted, processed, holds,
                   cp_rungs, deadline_passed, stopped_by, late, cp_retained,
                   cp_at_deadline, clean_deadline>>
    /\ UNCHANGED <<argVars, searchVars, stopperVars, retentionVars, schedulerVars>>

\* the slot of a trial that is no longer running goes back to the pool
ReleaseSlot(t) ==
    /\ campaign = "RUNNING"
    /\ trial_state[t] \in Terminal
    /\ holds[t]
    /\ holds' = [holds EXCEPT ![t] = FALSE]
    /\ UNCHANGED <<campaign, cp_n, cp_launched, trial_state, emitted, processed, discarded,
                   cp_rungs, deadline_passed, stopped_by, late, cp_retained,
                   cp_at_deadline, clean_deadline>>
    /\ UNCHANGED <<argVars, searchVars, stopperVars, retentionVars, schedulerVars>>

\* a worker whose results were all processed ends with success
TrialDone(t) ==
    /\ campaign = "RUNNING"
    /\ trial_state[t] = "RUNNING"
    /\ emitted[t] = natural_len
    /\ processed[t] = natural_len
    /\ trial_state' = [trial_state EXCEPT ![t] = "COMPLETED"]
    /\ UNCHANGED <<campaign, cp_n, cp_launched, emitted, processed, discarded, holds,
                   cp_rungs, deadline_passed, stopped_by, late, cp_retained,
                   cp_at_deadline, clean_deadline>>
    /\ UNCHANGED <<argVars, searchVars, stopperVars, retentionVars, schedulerVars>>

\* a worker crashes: FailureConfig(fail_fast) aborts the campaign or not
WorkerFailure(t) ==
    /\ faulty
    /\ campaign = "RUNNING"
    /\ trial_state[t] = "RUNNING"
    /\ trial_state' = [trial_state EXCEPT ![t] = "FAILED"]
    /\ campaign' = IF RunConfig.failure_config.fail_fast THEN "ABORTED" ELSE campaign
    /\ UNCHANGED <<cp_n, cp_launched, emitted, processed, discarded, holds,
                   cp_rungs, deadline_passed, stopped_by, late, cp_retained,
                   cp_at_deadline, clean_deadline>>
    /\ UNCHANGED <<argVars, searchVars, stopperVars, retentionVars, schedulerVars>>

\* the wall-clock budget of --timeout elapses
Deadline ==
    /\ campaign = "RUNNING"
    /\ timeout # <<>>
    /\ ~deadline_passed
    /\ deadline_passed' = TRUE
    /\ cp_at_deadline' = [t \in TrialIds |->
                              [retained |-> cp_retained[t], processed |-> processed[t]]]
    /\ clean_deadline' = \A t \in TrialIds : emitted[t] < natural_len
    /\ UNCHANGED <<campaign, cp_n, cp_launched, trial_state, emitted, processed, discarded,
                   holds, cp_rungs, stopped_by, late, cp_retained>>
    /\ UNCHANGED <<argVars, searchVars, stopperVars, retentionVars, schedulerVars>>

\* every launched trial is over and the budget is used up
Finish ==
    /\ campaign = "RUNNING"
    /\ SlotsSettled
    /\ cp_launched = cp_n \/ StopAll
    /\ \A t \in TrialIds :
        /\ trial_state[t] \in Terminal \cup {"PENDING"}
        /\ ~holds[t]
        /\ Consumed(t) = emitted[t]
    /\ campaign' = "COMPLETED"
    /\ UNCHANGED <<cp_n, cp_launched, trial_state, emitted, processed, discarded, holds,
                   cp_rungs, deadline_passed, stopped_by, late, cp_retained,
                   cp_at_deadline, clean_deadline>>
    /\ UNCHANGED <<argVars, searchVars, stopperVars, retentionVars, schedulerVars>>

Idle ==
    /\ SearchIdle
    /\ StopperIdle
    /\ ck_capacity = 0
    /\ RetentionIdle
    /\ SchedulerIdle
    /\ CampaignIdle

\* the arguments of a campaign in test mode: everything else is the default
TestModeArgs ==
    /\ test = TRUE
    /\ num_samples = <<>>
    /\ grace_period = DefaultGracePeriod
    /\ no_improvement_patience = DefaultPatience
    /\ timeout = <<>>
    /\ fail_slow = FALSE
    /\ additional_stoppers = <<>>
    /\ no_scheduler = FALSE
    /\ profile = "increasing"
    /\ faulty \in BOOLEAN

\* campaigns whose workers do not fail, under every combination of stoppers
HealthyArgs ==
    /\ test = FALSE
    /\ num_samples = <<MaxCampaignTrials>>
    /\ grace_period = 1
    /\ no_improvement_patience = 1
    /\ timeout \in {<<>>, <<"1h13m">>}
    /\ fail_slow = FALSE
    /\ additional_stoppers \in {<<>>, <<NoStopper, MaximumIterationStopper(MaxNaturalLen)>>}
    /\ no_scheduler \in BOOLEAN
    /\ profile \in {"increasing", "flat"}
    /\ faulty = FALSE

\* campaigns whose workers may fail
FaultyArgs ==
    /\ test = FALSE
    /\ num_samples = <<MaxCampaignTrials>>
    /\ grace_period = 1
    /\ no_improvement_patience = 1
    /\ timeout \in {<<>>, <<"soon">>}
    /\ fail_slow \in BOOLEAN
    /\ additional_stoppers = <<>>
    /\ no_scheduler = FALSE
    /\ profile = "increasing"
    /\ faulty = TRUE

InitCampaign ==
    /\ dispatcher = "Dispatcher"
    /\ rel_change_thld = 1
    /\ reduction_factor = 2
    /\ natural_len = MaxNaturalLen
    /\ pool_slots \in {1, 2}
    /\ run_ahead = 2
    /\ script = "tune_gc"
    /\ only_enqueued = FALSE
    /\ fixed = EmptyDict
    /\ enqueue = <<>>
    /\ restore = <<>>
    /\ \E family \in {"test", "healthy", "faulty"} :
        CASE family = "test" -> TestModeArgs
          [] family = "healthy" -> HealthyArgs
          [] OTHER -> FaultyArgs
    /\ Idle

\* what the control path and the workers do; the deadline is not theirs
Progress ==
    \/ GetTuner
    \/ Launch
    \/ \E t \in TrialIds : Report(t)
    \/ \E t \in TrialIds : ProcessResult(t)
    \/ \E t \in TrialIds : DiscardResult(t)
    \/ \E t \in TrialIds : ReleaseSlot(t)
    \/ \E t \in TrialIds : TrialDone(t)
    \/ Finish

NextCampaign ==
    \/ Progress
    \/ \E t \in TrialIds : WorkerFailure(t)
    \/ Deadline

SpecCampaign == InitCampaign /\ [][NextCampaign]_vars /\ WF_vars(Progress)

\* ---- claims about the campaign
Stopped == {"STOPPED_BY_POLICY", "STOPPED_BY_SCHEDULER"}

\* a constituent whose verdict depends on the trial's reports alone says STOP
\* at the trial's n-th result
HistoryVerdict(t, n) ==
    \/ NoImprovementShouldStop(
           get_no_improvement_stopper(dispatcher, grace_period, no_improvement_patience,
                                      rel_change_thld),
           History(profile, t, n))
    \/ \E i \in 1..Len(additional_stoppers) :
           StopperSays(additional_stoppers[i], History(profile, t, n), FALSE)
    \/ test /\ n >= 1

\* the timeout said STOP at the trial's last result
TimeoutVerdict(t) == timeout # <<>> /\ t \in late

\* the scheduler said STOP to the trial
SchedulerVerdict(t) ==
    /\ ~no_scheduler
    /\ \E k \in DOMAIN cp_rungs : \E i \in 1..Len(cp_rungs[k]) :
           cp_rungs[k][i].trial = t /\ cp_rungs[k][i].decision = "STOP"

FirstStopWins ==
    \A t \in TrialIds :
        /\ trial_state[t] = "RUNNING" =>
              /\ \A n \in 1..processed[t] : ~HistoryVerdict(t, n)
              /\ ~TimeoutVerdict(t)
              /\ ~SchedulerVerdict(t)
              /\ holds[t]
        /\ trial_state[t] \in Stopped =>
              /\ processed[t] >= 1
              /\ \A n \in 1..(processed[t] - 1) : ~HistoryVerdict(t, n)
              /\ \/ HistoryVerdict(t, processed[t])
                 \/ TimeoutVerdict(t)
                 \/ SchedulerVerdict(t)
        /\ trial_state[t] = "STOPPED_BY_SCHEDULER" => SchedulerVerdict(t)
        /\ trial_state[t] = "PENDING" => ~holds[t] /\ processed[t] = 0

StopIsFinal ==
    \A t \in TrialIds :
        /\ trial_state[t] \in Terminal =>
              /\ trial_state'[t] = trial_state[t]
              /\ processed'[t] = processed[t]
        /\ holds[t] /\ ~holds'[t] => trial_state[t] \in Stopped \cup {"COMPLETED", "FAILED"}
        /\ holds[t] /\ ~holds'[t] => trial_state'[t] = trial_state[t]

\* C4: a trial is RUNNING only while no constituent of the combined stopper
\* and not the scheduler has said STOP on any of its processed results, it
\* leaves RUNNING at the first result with a STOP verdict, and from then on
\* its state never changes, none of its results is processed, and its slot
\* goes back to the pool only from the stopped state.
C4_FirstStopWinsAndIsFinal == []FirstStopWins /\ [][StopIsFinal]_vars

\* C4 witness: a trial the scheduler stopped, whose result in flight was
\* dropped and whose slot is back, next to a trial a stopper stopped later
C4_Witness ==
    \E t \in TrialIds, u \in TrialIds :
        /\ trial_state[t] = "STOPPED_BY_SCHEDULER"
        /\ discarded[t] > 0
        /\ ~holds[t]
        /\ trial_state[u] = "STOPPED_BY_POLICY"
        /\ processed[u] > processed[t]

TestModeDefaults ==
    /\ test
    /\ dispatcher = "Dispatcher"
    /\ num_samples = <<>>
    /\ ~only_enqueued
    /\ grace_period = DefaultGracePeriod
    /\ no_improvement_patience = DefaultPatience
    /\ timeout = <<>>
    /\ ~fail_slow
    /\ additional_stoppers = <<>>
    /\ ~no_scheduler

TestModeResult ==
    /\ cp_launched = 1
    /\ trial_state[1] = "STOPPED_BY_POLICY"
    /\ stopped_by[1] = {"max_iteration"}
    /\ processed[1] = 1
    /\ \A t \in TrialIds : trial_state[t] # "FAILED"
    /\ \A t \in TrialIds \ {1} : trial_state[t] = "PENDING"

TestModeSafe ==
    TestModeDefaults /\ ~faulty =>
        /\ cp_launched <= 1
        /\ campaign \notin {"ABORTED", "ERROR"}
        /\ processed[1] <= 1
        /\ campaign = "COMPLETED" => TestModeResult

\* C10: a campaign in test mode with otherwise default arguments, whose
\* worker does not crash, launches exactly one trial, the maximum-iteration
\* stopper stops it at its first result, and the campaign ends COMPLETED
\* with no failed trial.
C10_TestMode ==
    /\ []TestModeSafe
    /\ (TestModeDefaults /\ ~faulty) ~> (campaign = "COMPLETED" /\ TestModeResult)

\* C10 witness: the test campaign is over after its one trial
C10_Witness ==
    TestModeDefaults /\ ~faulty /\ campaign = "COMPLETED" /\ TestModeResult

\* ------------------------------------------------------------ end to end
\* four trials on four slots, reduction_factor=2 and grace_period=1, every
\* trial done after the second rung
InitEndToEnd ==
    /\ dispatcher = "Dispatcher"
    /\ rel_change_thld = 1
    /\ test = FALSE
    /\ num_samples = <<EndToEndTrials>>
    /\ grace_period = 1
    /\ reduction_factor = 2
    /\ no_improvement_patience = DefaultPatience
    /\ timeout = <<>>
    /\ fail_slow = FALSE
    /\ additional_stoppers = <<>>
    /\ no_scheduler = FALSE
    /\ profile = "increasing"
    /\ faulty = FALSE
    /\ natural_len = grace_period * reduction_factor
    /\ pool_slots \in {1, EndToEndTrials}
    /\ run_ahead \in {1, 2}
    /\ script = "tune_gc"
    /\ only_enqueued = FALSE
    /\ fixed = EmptyDict
    /\ enqueue = <<>>
    /\ restore = <<>>
    /\ Idle

SpecEndToEnd == InitEndToEnd /\ [][Progress]_vars

\* ---- claims about the end-to-end campaign
FirstRung == cp_rungs[0]

StoppedAtFirstRung ==
    {t \in TrialIds : trial_state[t] = "STOPPED_BY_SCHEDULER" /\ processed[t] = grace_period}

AllTerminal == \A t \in TrialIds : trial_state[t] \in Terminal

NothingLost ==
    \A t \in TrialIds :
        trial_state[t] = "COMPLETED" =>
            /\ processed[t] = emitted[t]
            /\ processed[t] = natural_len
            /\ discarded[t] = 0

\* C7 as stated: exactly 2 trials are stopped at the first rung
C7_EndToEnd ==
    campaign = "COMPLETED" =>
        /\ Cardinality(StoppedAtFirstRung) = 2
        /\ AllTerminal
        /\ NothingLost

\* the trials that reported at the first rung before the i-th and scored higher
BetterBefore(i) == {j \in 1..(i - 1) : FirstRung[j].value > FirstRung[i].value}

\* C7: the campaign finishes with all 4 trials in a terminal state and no
\* result of a normally completing trial lost; every trial is scored at the
\* first rung, and it is stopped there exactly if, among the reports that
\* rung had received up to its own, at least half scored higher. The first
\* trial to report is never stopped, so at most 3 are.
C7_EndToEndByArrival ==
    campaign = "COMPLETED" =>
        /\ AllTerminal
        /\ NothingLost
        /\ Len(FirstRung) = EndToEndTrials
        /\ \A i \in 1..Len(FirstRung) :
               FirstRung[i].trial \in StoppedAtFirstRung
                   <=> Cardinality(BetterBefore(i)) * reduction_factor >= i
        /\ Cardinality(StoppedAtFirstRung) < EndToEndTrials

\* C7 witness: a finished campaign on four slots with 2 trials stopped at the
\* first rung
C7_Witness ==
    /\ campaign = "COMPLETED"
    /\ pool_slots = EndToEndTrials
    /\ Cardinality(StoppedAtFirstRung) = 2
    /\ \E t \in TrialIds : trial_state[t] = "COMPLETED"

\* ------------------------------------------------------------ the timeout
\* campaigns with a wall-clock budget whose trials would run for longer than
\* the checkpoint retention keeps records
InitTimeout ==
    /\ dispatcher = "Dispatcher"
    /\ rel_change_thld = 1
    /\ test = FALSE
    /\ num_samples = <<MaxCampaignTrials>>
    /\ grace_period = DefaultGracePeriod
    /\ reduction_factor = 4
    /\ no_improvement_patience = DefaultPatience
    /\ timeout = <<"1h13m">>
    /\ fail_slow = FALSE
    /\ additional_stoppers = <<>>
    /\ no_scheduler = FALSE
    /\ profile \in {"increasing", "flat"}
    /\ faulty \in BOOLEAN
    /\ natural_len = get_checkpoint_config.num_to_keep + 1
    /\ pool_slots \in {1, 2}
    /\ run_ahead = 2
    /\ script = "tune_gc"
    /\ only_enqueued = FALSE
    /\ fixed = EmptyDict
    /\ enqueue = <<>>
    /\ restore = <<>>
    /\ Idle

NextTimeout ==
    \/ Progress
    \/ \E t \in TrialIds : WorkerFailure(t)
    \/ Deadline

SpecTimeout == InitTimeout /\ [][NextTimeout]_vars /\ WF_vars(Progress)

\* ---- claims about the timeout
\* the budget elapsed before any worker had produced its last result, and no
\* worker crashes
TimeoutScenario == timeout # <<>> /\ ~faulty /\ deadline_passed /\ clean_deadline

LaunchedTrials == 1..cp_launched

AllStopped == \A t \in LaunchedTrials : trial_state[t] \in Stopped

LostSinceDeadline(t) == cp_at_deadline[t].retained \ cp_retained[t]

StopRecord(t) == {r \in cp_retained[t] : r.iteration = processed[t]}

StoppedAtNextResult(t) ==
    IF t \in late
    THEN /\ "timeout" \in stopped_by[t]
         /\ trial_state[t] = "STOPPED_BY_POLICY"
         /\ processed[t] = cp_at_deadline[t].processed + 1
    ELSE /\ processed[t] = cp_at_deadline[t].processed
         /\ cp_retained[t] = cp_at_deadline[t].retained

====
